---- MODULE Spec2Model ----
(***************************************************************************)
(* Model of chandralc: ChandraLightcurve.__init__ (the derivation of the   *)
(* time array, the cumulative counts and the statistics), the binning      *)
(* functions of chandralc.analysis, ChandraLightcurve.bin and              *)
(* analysis.flare_detect.                                                  *)
(*                                                                         *)
(* Numbers.  Python floats are modelled in fixed point:                    *)
(*   - an element of time_array is an integer number of 8e-8 kiloseconds   *)
(*     (1/12500 of 1e-3 ks), rounded up to it;                             *)
(*   - time and rate_ks (rounded to 3 decimals) are integers of 1e-3;      *)
(*   - rate_s (rounded to 5 decimals) is an integer of 1e-5;               *)
(*   - counts are integers.                                                *)
(* The rates are rounded as the doubles of Python round them.  An          *)
(* exception is the name of the Python exception the statement raises.     *)
(***************************************************************************)
EXTENDS Integers, Sequences, FiniteSets, TLC

VARIABLES
    pc,                    \* "new", "constructed" or "failed" (__init__ raised)
    records,               \* self.df: sequence of [EXPOSURE, COUNTS] rows
    file,                  \* the file name given to __init__ (a FileNames record)
    attrs,                 \* names of the instance attributes that have been set
    cumulative_count_arr,  \* self.cumulative_count_arr
    time_array,            \* self.time_array        (8e-8 ks)
    time,                  \* self.time              (1e-3 ks)
    count,                 \* self.count
    rate_ks,               \* self.rate_ks           (1e-3 counts/ks)
    rate_s,                \* self.rate_s            (1e-5 counts/s)
    obsid,                 \* self.obsid
    raw_phot,              \* self.raw_phot
    call,                  \* the last call made: [op, seq, binsize]
    outcome,               \* "ok" or the name of the exception the last call raised
    line,                  \* the source line at which the last call returned or raised
    result                 \* the value the last call returned

vars == <<pc, records, file, attrs, cumulative_count_arr, time_array, time, count,
          rate_ks, rate_s, obsid, raw_phot, call, outcome, line, result>>

lcvars == <<pc, records, file, attrs, cumulative_count_arr, time_array, time, count,
            rate_ks, rate_s, obsid, raw_phot>>

(***************************************************************************)
(* Bounds and input domains                                                *)
(***************************************************************************)
MaxLen == 4
MaxBin == 4

\* Sample rows of the loaded table: exposed rows with counts 1, 2 and -1
\* (a background-subtracted bin), a gap (exposure 0) and a row with a
\* negative exposure, the last two with counts the code must not add.
Rows == { [EXPOSURE |-> 1, COUNTS |-> 1], [EXPOSURE |-> 1, COUNTS |-> 2],
          [EXPOSURE |-> 1, COUNTS |-> -1], [EXPOSURE |-> 0, COUNTS |-> 1],
          [EXPOSURE |-> -1, COUNTS |-> 1] }
BinSizes == (-2) .. MaxBin

RECURSIVE SeqsUpTo(_, _)
SeqsUpTo(S, n) ==
    IF n = 0 THEN {<<>>}
    ELSE LET shorter == SeqsUpTo(S, n - 1)
         IN  shorter \cup {Append(s, x) : s \in {t \in shorter : Len(t) = n - 1}, x \in S}

\* File names, each with what the code reads off it: "txt" in file,
\* "fits" in file (lines 46-48) and file.split("_lc.fits")[0].split("_")
\* (line 77).
FileNames ==
    { [name |-> "src_1234_lc.fits", txt |-> FALSE, fits |-> TRUE,
       pieces |-> <<"src", "1234">>],
      [name |-> "src_1234_lc.txt", txt |-> TRUE, fits |-> FALSE,
       pieces |-> <<"src", "1234", "lc.txt">>],
      [name |-> "lightcurve.fits", txt |-> FALSE, fits |-> TRUE,
       pieces |-> <<"lightcurve.fits">>],
      [name |-> "obs_/_1234_lc.fits", txt |-> FALSE, fits |-> TRUE,
       pieces |-> <<"obs", "/", "1234">>],
      [name |-> "src_1234", txt |-> FALSE, fits |-> FALSE,
       pieces |-> <<"src", "1234">>] }

(***************************************************************************)
(* Python arithmetic                                                       *)
(***************************************************************************)
Abs(x) == IF x < 0 THEN -x ELSE x

\* a // b of Python (floor division), b # 0
PyFloorDiv(a, b) ==
    LET q == Abs(a) \div Abs(b)
        r == Abs(a) % Abs(b)
    IN  IF (a >= 0) = (b > 0) THEN q
        ELSE IF r = 0 THEN -q ELSE -(q + 1)

(***************************************************************************)
(* Python floats (IEEE-754 doubles) and round()                            *)
(*                                                                         *)
(* A natural number of any size is the sequence of its bits, the most      *)
(* significant first and 1 (zero is the empty sequence).  A positive       *)
(* double is [m, e]: the number m * 2^(-e), with m of exactly 53 bits.     *)
(* A value that is used more than once is computed once and bound to a     *)
(* name: x \in {value}.                                                    *)
(***************************************************************************)
\* b without its leading zeros
BNorm(b) ==
    LET ones == {i \in 1 .. Len(b) : b[i] = 1}
    IN  IF ones = {} THEN <<>>
        ELSE SubSeq(b, CHOOSE i \in ones : \A j \in ones : i <= j, Len(b))

RECURSIVE BFromNat(_)
BFromNat(n) == IF n = 0 THEN <<>> ELSE Append(BFromNat(n \div 2), n % 2)

RECURSIVE BToNat(_)
BToNat(b) ==
    IF b = <<>> THEN 0 ELSE 2 * BToNat(SubSeq(b, 1, Len(b) - 1)) + b[Len(b)]

Zeros(k) == [i \in 1 .. k |-> 0]

\* b * 2^k for k > 0, b for k <= 0
BShl(b, k) == IF b = <<>> \/ k <= 0 THEN b ELSE b \o Zeros(k)

\* -1, 0 or 1 as a < b, a = b or a > b
BCmp(a, b) ==
    IF Len(a) # Len(b) THEN (IF Len(a) < Len(b) THEN -1 ELSE 1)
    ELSE LET diff == {i \in 1 .. Len(a) : a[i] # b[i]}
         IN  IF diff = {} THEN 0
             ELSE LET i == CHOOSE x \in diff : \A y \in diff : x <= y
                  IN  IF a[i] < b[i] THEN -1 ELSE 1

\* a + b: the carry into bit i comes from the nearest lower position where
\* both bits are equal, and is that bit
BAdd(a, b) ==
    LET n  == 1 + (IF Len(a) > Len(b) THEN Len(a) ELSE Len(b))
        pa == Zeros(n - Len(a)) \o a
        pb == Zeros(n - Len(b)) \o b
        carry(i) ==
            LET same == {j \in (i + 1) .. n : pa[j] = pb[j]}
            IN  IF same = {} THEN 0
                ELSE pa[CHOOSE j \in same : \A k \in same : j <= k]
    IN  BNorm([i \in 1 .. n |-> (pa[i] + pb[i] + carry(i)) % 2])

\* a - b for a >= b: bit i borrows when the lower bits of a are less than
\* those of b
BSub(a, b) ==
    LET n  == Len(a)
        pb == Zeros(n - Len(b)) \o b
        borrow(i) ==
            LET diff == {j \in (i + 1) .. n : a[j] # pb[j]}
            IN  IF diff = {} THEN 0
                ELSE IF a[CHOOSE j \in diff : \A k \in diff : j <= k] = 0 THEN 1 ELSE 0
    IN  BNorm([i \in 1 .. n |-> (a[i] + 2 - pb[i] - borrow(i)) % 2])

RECURSIVE MulLoop(_, _, _, _)
MulLoop(a, b, i, acc) ==
    IF Len(acc) >= 0 /\ i > Len(b) THEN acc
    ELSE MulLoop(a, b, i + 1, BAdd(BShl(acc, 1), IF b[i] = 1 THEN a ELSE <<>>))

BMul(a, b) == MulLoop(a, b, 1, <<>>)

\* one step of long division of a by d in base 16: bring down the (up to)
\* four bits of a from bit i, take the digit c, the number of multiples
\* d, 2 d, ..., 15 d that fit in the remainder, and subtract c * d
DivStep(st, a, d, i) ==
    LET k  == IF i + 3 <= Len(a) THEN 4 ELSE Len(a) - i + 1
        r1 == BNorm(st.r \o SubSeq(a, i, i + k - 1))
    IN  CHOOSE s \in
            { [q |-> st.q \o [j \in 1 .. k |-> (c \div 2 ^ (k - j)) % 2],
               r |-> BSub(r1, BMul(d, BFromNat(c)))] :
              c \in {Cardinality({m \in 1 .. 15 : BCmp(BMul(d, BFromNat(m)), r1) <= 0})} } :
            TRUE

RECURSIVE DivLoop(_, _, _, _)
DivLoop(st, a, d, i) ==
    IF Len(st.q) >= 0 /\ i > Len(a) THEN st
    ELSE DivLoop(DivStep(st, a, d, i), a, d, i + 4)

\* the quotient q and the remainder r of a by d, d # 0.  The leading
\* Len(d) - 1 bits of a are less than d: the division starts after them.
BDivMod(a, d) ==
    LET n0 == IF Len(a) < Len(d) THEN Len(a) ELSE Len(d) - 1
    IN  CHOOSE s \in
            { [q |-> BNorm(st.q), r |-> st.r] :
              st \in {DivLoop([q |-> <<>>, r |-> SubSeq(a, 1, n0)], a, d, n0 + 1)} } :
            TRUE

\* a / d rounded to the nearest integer, ties to the even one
BRoundDiv(a, d) ==
    CHOOSE q \in
        { IF \/ BCmp(BShl(dm.r, 1), d) > 0
             \/ (BCmp(BShl(dm.r, 1), d) = 0 /\ dm.q # <<>> /\ dm.q[Len(dm.q)] = 1)
          THEN BAdd(dm.q, <<1>>)
          ELSE dm.q : dm \in {BDivMod(a, d)} } : TRUE

\* the double nearest to a / b (round to nearest, ties to even), a, b > 0
Fl(a, b) ==
    LET e0 == 53 - (Len(a) - Len(b))
        e  == IF BCmp(BShl(a, e0), BShl(BShl(b, -e0), 53)) >= 0 THEN e0 - 1 ELSE e0
    IN  CHOOSE x \in
            { IF Len(m) = 54 THEN [m |-> BShl(<<1>>, 52), e |-> e - 1]
              ELSE [m |-> m, e |-> e] :
              m \in {BRoundDiv(BShl(a, e), BShl(b, -e))} } :
            TRUE

\* n / x in floating point, n a positive integer and x a double
FlDivNat(n, x) ==
    LET a == BShl(BFromNat(n), x.e)
        b == BShl(x.m, -x.e)
    IN  IF Len(a) > 0 /\ Len(b) > 0 THEN Fl(a, b) ELSE x

\* x * n in floating point, x a double and n a positive integer
FlMulNat(x, n) ==
    LET a == BShl(BMul(x.m, BFromNat(n)), -x.e)
        b == BShl(<<1>>, x.e)
    IN  IF Len(a) > 0 /\ Len(b) > 0 THEN Fl(a, b) ELSE x

\* round(x, ndigits) of Python as an integer number of 10^(-ndigits), with
\* p = 10^ndigits: the decimal nearest to the exact value of the double x
PyRound(x, p) ==
    LET a == BShl(BMul(x.m, BFromNat(p)), -x.e)
        b == BShl(<<1>>, x.e)
    IN  IF Len(a) > 0 /\ Len(b) > 0 THEN BToNat(BRoundDiv(a, b)) ELSE 0

\* the double that stores the decimal tm / 1000 (the value round(., 3) returns)
Milli(tm) == Fl(BFromNat(tm), BFromNat(1000))

\* chandra_bin / 1000 = 0.003241039999999654 ks in units of 8e-8 ks, rounded
\* up to the unit (0.00324104 ks = 40513 units): element i of time_array is
\* the integer chandra_bin * i; the float it stands for is below it by
\* i * 4.3e-9 of a unit
chandra_bin == 40513

(***************************************************************************)
(* ChandraLightcurve.__init__                                              *)
(***************************************************************************)
\* the counting step without the test of EXPOSURE
AccumulateAll(cnt, row) == cnt + row.COUNTS

\* lines 59-62: one step of the counting loop
Accumulate(cnt, row) ==
    IF row.EXPOSURE > 0 THEN cnt + row.COUNTS
    ELSE IF row.EXPOSURE = 0 THEN cnt + 0
    ELSE cnt

\* the loop with the append moved under the test of EXPOSURE
RECURSIVE CountLoopSkip(_, _, _, _)
CountLoopSkip(df, index, cnt, arr) ==
    IF index > Len(df) THEN arr
    ELSE LET c == Accumulate(cnt, df[index])
         IN  CountLoopSkip(df, index + 1, c,
                           IF df[index].EXPOSURE > 0 THEN Append(arr, c) ELSE arr)

\* lines 53-64: the loop over the rows, appending the running count
RECURSIVE CountLoop(_, _, _, _)
CountLoop(df, index, cnt, arr) ==
    IF index > Len(df) THEN arr
    ELSE LET c == Accumulate(cnt, df[index])
         IN  CountLoop(df, index + 1, c, Append(arr, c))

CumulativeCounts(df) == CountLoop(df, 1, 0, <<>>)

\* the time stamps with range(1, n + 2)
TimeArrayOffByOne(n) == [i \in 1 .. (n + 1) |-> chandra_bin * i]

\* lines 67-68: [chandra_bin / 1000 * i for i in range(1, n + 1)]
TimeArray(n) == [i \in 1 .. n |-> chandra_bin * i]

\* line 71: round(self.time_array[-1], 3), in units of 1e-3 ks (12500 units
\* of time_array).  The float is just below the integer t of the model, so
\* a t that lies half-way between two multiples of 1e-3 stands for a float
\* that rounds down.
TimeOf(t) ==
    LET q == t \div 12500
        r == t % 12500
    IN  IF 2 * r <= 12500 THEN q ELSE q + 1

\* the quotient q and the remainder r of n * 10^k by d, a digit at a time
RECURSIVE ScaledDivMod(_, _, _)
ScaledDivMod(n, k, d) ==
    IF k = 0 THEN [q |-> n \div d, r |-> n % d]
    ELSE LET s == ScaledDivMod(n, k - 1, d)
         IN  [q |-> 10 * s.q + ((10 * s.r) \div d), r |-> (10 * s.r) % d]

\* round(n / d, k) of Python for the float n / d of positive integers, as
\* an integer number of 10^(-k): the nearest integer to the exact quotient
\* n * 10^k / d when that is not half-way between two integers (the error
\* of the float, below 1e-15 of the quotient, is then less than the
\* distance 1 / (2 d) to half-way), and else what round() makes of the
\* float, fl, where the error of the float decides
NearestTrunc(n, k, d, fl) == ScaledDivMod(n, k, d).q

Nearest(n, k, d, fl) ==
    LET s == ScaledDivMod(n, k, d)
    IN  IF 2 * s.r < d THEN s.q
        ELSE IF 2 * s.r > d THEN s.q + 1
        ELSE fl

\* round(n / x, ndigits) as an integer number of 1 / p, p = 10^ndigits, for
\* the double x, the one element of xs: the float quotient, then round().
\* Each intermediate double is computed once and bound to a name.
RoundedQuotient(n, xs, p) ==
    CHOOSE v \in {PyRound(q, p) : q \in {FlDivNat(n, x) : x \in xs}} : TRUE

\* line 73: round(self.count / self.time, 3), in units of 1e-3, self.time
\* the double of tm / 1000
RateKs(cnt, tm) ==
    LET v == Nearest(Abs(cnt), 6, tm,
                     RoundedQuotient(Abs(cnt), {Milli(tm)}, 1000))
    IN  IF cnt < 0 THEN -v ELSE v

\* line 74: round(self.count / (self.time * 1000), 5), in units of 1e-5:
\* the float product self.time * 1000 comes first
RateS(cnt, tm) ==
    LET v == Nearest(Abs(cnt), 5, tm,
                     RoundedQuotient(Abs(cnt),
                                     {FlMulNat(x, 1000) : x \in {Milli(tm)}},
                                     100000))
    IN  IF cnt < 0 THEN -v ELSE v

\* the raw counts with the test EXPOSURE >= 0
RawPhotNonNegative(df) ==
    [i \in 1 .. Len(df) |-> IF df[i].EXPOSURE >= 0 THEN df[i].COUNTS ELSE 0]

\* lines 83-84: [COUNTS[i] if EXPOSURE[i] > 0 else 0 for i in range(len(df))]
RawPhot(df) ==
    [i \in 1 .. Len(df) |-> IF df[i].EXPOSURE > 0 THEN df[i].COUNTS ELSE 0]

Last(s) == s[Len(s)]

\* The line at which __init__ stops for the table df of the file and the
\* file name f: the line of the statement that raises, or 84 when it runs
\* to its end.  A name with neither "txt" nor "fits" in it binds no self.df
\* (lines 46-49 have no else), and the loop header of line 58 raises.
\* Line 73 divides by self.time, which is 0 for no table with a row
\* (round(0.00324 * n, 3) >= 0.003), so that branch is never taken.
InitLine(df, f) ==
    LET tarr == TimeArray(Len(CumulativeCounts(df)))
    IN  IF ~f.txt /\ ~f.fits THEN 58                     \* self.df
        ELSE IF Len(tarr) = 0 THEN 71                    \* [][-1]
        ELSE IF TimeOf(Last(tarr)) = 0 THEN 73           \* count / 0.0
        ELSE IF \E i \in 1 .. Len(f.pieces) : f.pieces[i] = "/" THEN 78 \* list.split
        ELSE IF Len(f.pieces) < 2 THEN 79                \* file[1]
        ELSE 84

InitOutcome(df, f) ==
    LET l == InitLine(df, f)
    IN  IF l = 58 THEN "AttributeError"
        ELSE IF l = 71 THEN "IndexError"
        ELSE IF l = 73 THEN "ZeroDivisionError"
        ELSE IF l = 78 THEN "AttributeError"
        ELSE IF l = 79 THEN "IndexError"
        ELSE "ok"

\* The attributes assigned before line l
AttrsBefore(l) ==
    {"path", "cumulative_count_arr"}
        \cup (IF l > 58 THEN {"df", "time_array"} ELSE {})
        \cup (IF l > 72 THEN {"time", "count"} ELSE {})
        \cup (IF l > 74 THEN {"rate_ks", "rate_s"} ELSE {})
        \cup (IF l > 80 THEN {"obsid", "coords"} ELSE {})
        \cup (IF l >= 84 THEN {"raw_phot"} ELSE {})

NoCall == [op |-> "none", seq |-> <<>>, binsize |-> 0]

Init ==
    /\ pc = "new"
    /\ records = <<>>
    /\ file = [name |-> "", txt |-> FALSE, fits |-> FALSE, pieces |-> <<>>]
    /\ attrs = {}
    /\ cumulative_count_arr = <<>>
    /\ time_array = <<>>
    /\ time = 0
    /\ count = 0
    /\ rate_ks = 0
    /\ rate_s = 0
    /\ obsid = ""
    /\ raw_phot = <<>>
    /\ call = NoCall
    /\ outcome = "ok"
    /\ line = 0
    /\ result = <<>>

Construct ==
    /\ pc = "new"
    /\ \E df \in SeqsUpTo(Rows, MaxLen), f \in FileNames :
         LET l    == InitLine(df, f)
             cum  == CumulativeCounts(df)
             tarr == TimeArray(Len(cum))
             cnt  == IF Len(cum) = 0 THEN 0 ELSE Last(cum)
             tm   == TimeOf(Last(tarr))
         IN  /\ records' = IF l > 58 THEN df ELSE <<>>
             /\ file' = f
             /\ attrs' = AttrsBefore(l)
             /\ cumulative_count_arr' = IF l > 58 THEN cum ELSE <<>>
             /\ time_array' = IF l > 58 THEN tarr ELSE <<>>
             /\ time' = IF l > 72 THEN tm ELSE 0
             /\ count' = IF l > 72 THEN cnt ELSE 0
             /\ rate_ks' = IF l > 74 THEN RateKs(cnt, tm) ELSE 0
             /\ rate_s' = IF l > 74 THEN RateS(cnt, tm) ELSE 0
             /\ obsid' = IF l > 80 THEN f.pieces[2] ELSE ""
             /\ raw_phot' = IF l >= 84 THEN RawPhot(df) ELSE <<>>
             /\ pc' = IF l = 84 THEN "constructed" ELSE "failed"
             /\ call' = [op |-> "__init__", seq |-> <<>>, binsize |-> 0]
             /\ outcome' = InitOutcome(df, f)
             /\ line' = l
             /\ result' = <<>>

(***************************************************************************)
(* chandralc.analysis                                                      *)
(***************************************************************************)
\* The names bound at module level in analysis.py (imports and defs)
AnalysisGlobals == {"ml", "plt", "signal", "psd", "bin_lc", "bin_toarrays", "flare_detect"}

\* lines 52-56: temp2 summed over k in range(binsize), j already scaled
RECURSIVE SumLoop(_, _, _, _, _)
SumLoop(lightcurve, j, k, binsize, temp2) ==
    IF k >= binsize THEN temp2
    ELSE SumLoop(lightcurve, j, k + 1, binsize, temp2 + lightcurve[j + k + 1])

\* the outer loop without j *= binsize: bin j starts at element j
RECURSIVE BinLoopNoStride(_, _, _, _, _)
BinLoopNoStride(lightcurve, binsize, j, nbins, binned_photons) ==
    IF j >= nbins THEN binned_photons
    ELSE BinLoopNoStride(lightcurve, binsize, j + 1, nbins,
                         Append(binned_photons, SumLoop(lightcurve, j, 0, binsize, 0)))

\* lines 51-59: for j in range(0, len(lightcurve)//binsize)
RECURSIVE BinLoop(_, _, _, _, _)
BinLoop(lightcurve, binsize, j, nbins, binned_photons) ==
    IF j >= nbins THEN binned_photons
    ELSE BinLoop(lightcurve, binsize, j + 1, nbins,
                 Append(binned_photons, SumLoop(lightcurve, j * binsize, 0, binsize, 0)))

\* lines 33-61
bin_lc(lightcurve, binsize) ==
    IF binsize = 0
    THEN [exc |-> "ZeroDivisionError", line |-> 51, val |-> <<>>]
    ELSE [exc |-> "ok", line |-> 61,
          val |-> BinLoop(lightcurve, binsize, 0,
                          PyFloorDiv(Len(lightcurve), binsize), <<>>)]

\* lines 83-89: temp1 collects lightcurve[j+k] for k in range(binsize)
RECURSIVE SliceLoop(_, _, _, _, _)
SliceLoop(lightcurve, j, k, binsize, temp1) ==
    IF k >= binsize THEN temp1
    ELSE SliceLoop(lightcurve, j, k + 1, binsize, Append(temp1, lightcurve[j + k + 1]))

\* lines 82-92: for j in range(0, len(lightcurve)//binsize)
RECURSIVE ArraysLoop(_, _, _, _, _)
ArraysLoop(lightcurve, binsize, j, nbins, binned_photons) ==
    IF j >= nbins THEN binned_photons
    ELSE ArraysLoop(lightcurve, binsize, j + 1, nbins,
                    Append(binned_photons, SliceLoop(lightcurve, j * binsize, 0, binsize, <<>>)))

\* lines 63-94
bin_toarrays(lightcurve, binsize) ==
    IF binsize = 0
    THEN [exc |-> "ZeroDivisionError", line |-> 82, val |-> <<>>]
    ELSE [exc |-> "ok", line |-> 94,
          val |-> ArraysLoop(lightcurve, binsize, 0,
                             PyFloorDiv(Len(lightcurve), binsize), <<>>)]

\* lines 96-130.  The function stops at the first name it cannot resolve:
\* `analysis` is not bound in analysis.py (line 113); were it bound, the
\* lightcurve has no attribute cumulative_counts (line 114); np (line 121)
\* is looked up only when there is a slope; check_cluster (line 127) is not
\* bound either.  No later statement is reached.
flare_detect(lc_attrs, nbins) ==
    IF "analysis" \notin AnalysisGlobals
    THEN [exc |-> "NameError", line |-> 113, val |-> FALSE]
    ELSE IF "cumulative_counts" \notin lc_attrs
    THEN [exc |-> "AttributeError", line |-> 114, val |-> FALSE]
    ELSE IF nbins > 0 /\ "np" \notin AnalysisGlobals
    THEN [exc |-> "NameError", line |-> 121, val |-> FALSE]
    ELSE [exc |-> "NameError", line |-> 127, val |-> FALSE]

CallBinLc ==
    /\ pc = "constructed"
    /\ \E seq \in {raw_phot, cumulative_count_arr}, binsize \in BinSizes :
         LET r == bin_lc(seq, binsize)
         IN  /\ call' = [op |-> "bin_lc", seq |-> seq, binsize |-> binsize]
             /\ outcome' = r.exc
             /\ line' = r.line
             /\ result' = r.val
    /\ UNCHANGED lcvars

CallBinToArrays ==
    /\ pc = "constructed"
    /\ \E seq \in {time_array, cumulative_count_arr}, binsize \in BinSizes :
         LET r == bin_toarrays(seq, binsize)
         IN  /\ call' = [op |-> "bin_toarrays", seq |-> seq, binsize |-> binsize]
             /\ outcome' = r.exc
             /\ line' = r.line
             /\ result' = r.val
    /\ UNCHANGED lcvars

CallFlareDetect ==
    /\ pc = "constructed"
    /\ \E binsize \in BinSizes \ {0} :
         LET r == flare_detect(attrs, PyFloorDiv(Len(time_array), binsize))
         IN  /\ call' = [op |-> "flare_detect", seq |-> time_array, binsize |-> binsize]
             /\ outcome' = r.exc
             /\ line' = r.line
             /\ result' = r.val
    /\ UNCHANGED lcvars

(***************************************************************************)
(* ChandraLightcurve.bin                                                   *)
(***************************************************************************)
\* line 154: return analysis.bin(self, binsize).  The module analysis has no
\* attribute bin, so the attribute lookup raises before anything is called.
lc_bin(photons, binsize) ==
    IF "bin" \notin AnalysisGlobals
    THEN [exc |-> "AttributeError", line |-> 154, val |-> <<>>]
    ELSE bin_lc(photons, binsize)

CallBin ==
    /\ pc = "constructed"
    /\ \E binsize \in BinSizes :
         LET r == lc_bin(raw_phot, binsize)
         IN  /\ call' = [op |-> "bin", seq |-> raw_phot, binsize |-> binsize]
             /\ outcome' = r.exc
             /\ line' = r.line
             /\ result' = r.val
    /\ UNCHANGED lcvars

Next ==
    \/ Construct
    \/ CallBinLc
    \/ CallBinToArrays
    \/ CallFlareDetect
    \/ CallBin

Spec == Init /\ [][Next]_vars


(***************************************************************************)
(* Properties                                                              *)
(***************************************************************************)
RECURSIVE SumSeq(_)
SumSeq(s) == IF Len(s) = 0 THEN 0 ELSE s[1] + SumSeq(Tail(s))

\* the counts of the rows whose exposure is positive
ExposedCounts(df) == SelectSeq(df, LAMBDA row : row.EXPOSURE > 0)

SumExposed(df) == SumSeq([i \in 1 .. Len(ExposedCounts(df)) |-> ExposedCounts(df)[i].COUNTS])

NonNegativeRows(df) == \A i \in 1 .. Len(df) : df[i].EXPOSURE >= 0 /\ df[i].COUNTS >= 0

\* len(call.seq) // call.binsize, the number of whole bins of the last call
NBins == PyFloorDiv(Len(call.seq), call.binsize)

\* C1: for a non-empty table whose exposures and counts are all >= 0, once
\* __init__ has built the two arrays, time_array and cumulative_count_arr
\* have one element per row, time_array is strictly increasing and
\* cumulative_count_arr is non-decreasing.
InvC1 ==
    ("time_array" \in attrs /\ records # <<>> /\ NonNegativeRows(records)) =>
        /\ Len(time_array) = Len(records)
        /\ Len(cumulative_count_arr) = Len(records)
        /\ \A i \in 1 .. Len(time_array) - 1 : time_array[i] < time_array[i + 1]
        /\ \A i \in 1 .. Len(cumulative_count_arr) - 1 :
               cumulative_count_arr[i] <= cumulative_count_arr[i + 1]

WitC1 ==
    /\ pc = "constructed"
    /\ Len(records) >= 3
    /\ NonNegativeRows(records)
    /\ \E i \in 1 .. Len(records) : records[i].EXPOSURE = 0
    /\ cumulative_count_arr[Len(records)] > cumulative_count_arr[1]

\* C2: a row with exposure 0 appends the previous cumulative total
\* unchanged, and the last cumulative count and the stored count equal the
\* sum of COUNTS over exactly the rows with exposure > 0.
InvC2 ==
    "df" \in attrs =>
        /\ Len(cumulative_count_arr) = Len(records)
        /\ \A i \in 1 .. Len(records) :
               records[i].EXPOSURE = 0 =>
                   cumulative_count_arr[i] = (IF i = 1 THEN 0 ELSE cumulative_count_arr[i - 1])
        /\ records # <<>> => Last(cumulative_count_arr) = SumExposed(records)
        /\ "count" \in attrs => count = SumExposed(records)

WitC2 ==
    /\ pc = "constructed"
    /\ \E i, j \in 1 .. Len(records) :
           /\ i < j
           /\ records[i].EXPOSURE > 0 /\ records[i].COUNTS > 0
           /\ records[j].EXPOSURE = 0 /\ records[j].COUNTS > 0
    /\ count = SumExposed(records)
    /\ count > 0

\* C3: for binsize >= 1, bin_lc and bin_toarrays return len(seq) // binsize
\* elements; element j of bin_toarrays is seq[j*binsize : j*binsize+binsize]
\* and element j of bin_lc is its sum; the trailing len(seq) mod binsize
\* elements are in no bin; bin_lc(seq, 1) is seq.
InvC3 ==
    (call.op \in {"bin_lc", "bin_toarrays"} /\ call.binsize >= 1) =>
        LET b == call.binsize
            n == Len(call.seq) \div b
            slice(j) == SubSeq(call.seq, (j - 1) * b + 1, j * b)
        IN  /\ outcome = "ok"
            /\ Len(result) = n
            /\ n * b <= Len(call.seq)
            /\ call.op = "bin_toarrays" => \A j \in 1 .. n : result[j] = slice(j)
            /\ call.op = "bin_lc" => \A j \in 1 .. n : result[j] = SumSeq(slice(j))
            /\ (call.op = "bin_lc" /\ b = 1) => result = call.seq

WitC3 ==
    /\ call.op = "bin_lc"
    /\ call.binsize = 2
    /\ Len(call.seq) = 4
    /\ outcome = "ok"
    /\ Len(result) = 2
    /\ result[1] = call.seq[1] + call.seq[2]
    /\ result[2] = call.seq[3] + call.seq[4]
    /\ call.seq[2] # call.seq[4]
    /\ result[1] # result[2]

\* C4: ChandraLightcurve.bin(binsize) with binsize >= 1 completes and
\* returns the bins of the photon counts, as bin_lc gives them.
CexC4 ==
    (call.op = "bin" /\ call.binsize >= 1) =>
        /\ outcome = "ok"
        /\ result = bin_lc(raw_phot, call.binsize).val

\* C5: every binning call with binsize < 1 ends in an error; it never
\* returns a list of bins.
CexC5 ==
    (call.op \in {"bin_lc", "bin_toarrays"} /\ call.binsize < 1) => outcome # "ok"

\* C6: constructing from an empty table fails with an error (the IndexError
\* of time_array[-1], the code's empty-input error), and time, count and the
\* rates are never set.
InvC6 ==
    ("df" \in attrs /\ records = <<>>) =>
        /\ pc = "failed"
        /\ outcome = "IndexError"
        /\ line = 71
        /\ attrs \cap {"time", "count", "rate_ks", "rate_s", "raw_phot"} = {}

WitC6 ==
    /\ pc = "failed"
    /\ records = <<>>
    /\ call.op = "__init__"
    /\ "df" \in attrs
    /\ "time_array" \in attrs

\* C7 as stated: time is the last element of time_array, rate_ks is
\* count / time, and rate_s is the stored rate_ks / 1000.
CexC7 ==
    pc = "constructed" =>
        /\ time * 12500 = Last(time_array)
        /\ rate_ks * time = 1000000 * count
        /\ rate_s * 10 = rate_ks

\* C7 amended: time is the last element of time_array rounded to 3
\* decimals, rate_ks is count / time rounded to 3 decimals, and rate_s is
\* count / (time * 1000) rounded to 5 decimals: each stored value is within
\* half a unit of its last decimal of the exact one.
InvC7 ==
    pc = "constructed" =>
        /\ time > 0
        /\ 2 * Abs(time * 12500 - Last(time_array)) <= 12500
        /\ 2 * Abs(rate_ks * time - 1000000 * count) <= time
        /\ 2 * Abs(rate_s * time - 100000 * count) <= time

WitC7 ==
    /\ pc = "constructed"
    /\ count > 0
    /\ time * 12500 # Last(time_array)
    /\ rate_ks * time > 1000000 * count
    /\ rate_s * 10 # rate_ks

\* C8: flare_detect on a lightcurve that yields fewer than 2 bins
\* (len // binsize is 0 or 1) returns False and raises nothing.
CexC8 ==
    (call.op = "flare_detect" /\ NBins \in {0, 1}) =>
        /\ outcome = "ok"
        /\ result = FALSE

\* C9: in flare_detect the undefined slopes are replaced by 0 before the
\* outlier rule runs: a call that has a bin gets past the substitution loop
\* (lines 120-122) to the line that applies sigma_check.
CexC9 ==
    (call.op = "flare_detect" /\ NBins >= 1) => line >= 125

\* C10: for every table, negative exposures included, raw_phot has one
\* element per row and cumulative_count_arr[i] is the sum of raw_phot[0..i].
InvC10 ==
    "raw_phot" \in attrs =>
        /\ Len(raw_phot) = Len(records)
        /\ Len(cumulative_count_arr) = Len(records)
        /\ \A i \in 1 .. Len(records) :
               cumulative_count_arr[i] = SumSeq(SubSeq(raw_phot, 1, i))

WitC10 ==
    /\ pc = "constructed"
    /\ \E i, j, k \in 1 .. Len(records) :
           /\ records[i].EXPOSURE < 0 /\ records[i].COUNTS # 0
           /\ records[j].EXPOSURE = 0 /\ records[j].COUNTS # 0
           /\ records[k].EXPOSURE > 0 /\ records[k].COUNTS # 0
    /\ Last(cumulative_count_arr) = SumSeq(raw_phot)

====
